---- MODULE Spec2Model ----
(***************************************************************************)
(* Control flow of the four model-conversion scripts of qt-brbooth:        *)
(*   convert_yolo.py                 (script "yolo")                       *)
(*   download_tflite_model.py        (script "tflite")                     *)
(*   tools/build_trt_engine.py       (script "trt")                        *)
(*   tools/export_mediapipe_hands.py (script "hands")                      *)
(* One behaviour is one process invocation of one script.  Every call into *)
(* an external framework is a step whose outcome (return value or raised   *)
(* exception) is chosen nondeterministically.  Exceptions are subclasses   *)
(* of Exception; print() and os.path.getsize() of an existing file do not  *)
(* raise.  A package is either importable or absent; importing an absent   *)
(* package raises ImportError, importing a present one succeeds.           *)
(***************************************************************************)
EXTENDS Integers, Sequences, FiniteSets, TLC

VARIABLES script,     \* which script this process runs
          installed,  \* set of importable third-party packages
          argv,       \* command-line arguments after the script name
          pc,         \* position in the script
          modelName,  \* convert_yolo.py: model_name
          outputName, \* convert_yolo.py: output_name
          model,      \* download_tflite_model.py: model handle
          modelType,  \* export_mediapipe_hands.py: args.model
          files,      \* file system: path |-> content
          log,        \* lines printed so far
          calls,      \* external calls and file opens made so far, in order
          raised,     \* sites at which an exception was raised, in order
          retval,     \* return values of the script's own functions
          converted,  \* what the external conversion call returned
          parsed,     \* build_trt_engine.py: what parser.parse returned
          numErrors,  \* build_trt_engine.py: parser.num_errors
          stage,      \* pipeline stage reached
          trace,      \* stages visited, in order
          exitCode,   \* process exit status, NoExit while running
          uncaught    \* TRUE when the process died of a propagated exception

vars == <<script, installed, argv, pc, modelName, outputName, model, modelType,
          files, log, calls, raised, retval, converted, parsed, numErrors,
          stage, trace, exitCode, uncaught>>

\* ---------------------------------------------------------------- bounds
MaxLen == 4
MaxErrors == 2

\* ------------------------------------------------------------- constants
Alphabet == {"a", ".", "p", "t"}
None == <<"None">>
Pt == <<".", "p", "t">>
Onnx == <<".", "o", "n", "n", "x">>
DefaultModelName == <<"y", "o", "l", "o", "v", "8", "n", "-", "s", "e", "g", ".", "p", "t">>
TfliteOutputPath == <<"deeplabv3.tflite">>
OnnxFile == <<"models/yolov8n.onnx">>
EngineFile == <<"models/yolov8n_fp16.engine">>
HandsOutput == <<"hand_landmark.onnx">>
ModelFileNames == [lite |-> <<"hand_landmark_lite.tflite">>, full |-> <<"hand_landmark_full.tflite">>]

Scripts == {"yolo", "tflite", "trt", "hands"}

\* packages each script imports
TopLevelImports(s) ==
    CASE s = "yolo" -> {"ultralytics"}
      [] s = "tflite" -> {"numpy"}
      [] s = "trt" -> {"tensorrt"}
      [] s = "hands" -> {"mediapipe", "tflite2onnx"}

Packages(s) ==
    IF s = "tflite" THEN {"numpy", "tensorflow", "tensorflow_hub"} ELSE TopLevelImports(s)

\* ------------------------------------------------------ string functions
Names == UNION {[1..n -> Alphabet] : n \in 0..MaxLen}

\* str.endswith
EndsWith(s, suffix) ==
    /\ Len(s) >= Len(suffix)
    /\ SubSeq(s, Len(s) - Len(suffix) + 1, Len(s)) = suffix

\* str.replace('.pt', '.onnx'): every non-overlapping occurrence, left to right
RECURSIVE ReplacePt(_)
ReplacePt(s) ==
    IF Len(s) < Len(Pt) THEN s
    ELSE IF SubSeq(s, 1, Len(Pt)) = Pt
         THEN Onnx \o ReplacePt(SubSeq(s, Len(Pt) + 1, Len(s)))
         ELSE <<Head(s)>> \o ReplacePt(Tail(s))

NormalizeAlways(name) == name \o Pt
\* convert_yolo.py: if not model_name.endswith('.pt'): model_name += '.pt'
Normalize(name) == IF EndsWith(name, Pt) THEN name ELSE name \o Pt

\* convert_yolo.py __main__: default name, or the normalised first argument
ResolveModelName(args) == IF Len(args) > 0 THEN Normalize(args[1]) ELSE DefaultModelName

\* convert_model: output_name defaults to model_name.replace('.pt', '.onnx')
OutputNameOf(name) == ReplacePt(name)

\* --------------------------------------------------------------- helpers
Line(kind, text) == [kind |-> kind, text |-> text, idx |-> 0]
ErrorLine(i) == [kind |-> "parser_error", text |-> <<>>, idx |-> i]

Exists(fs, path) == path \in DOMAIN fs
\* open(path, 'wb') followed by the write, leaving the given content
WriteFile(fs, path, content) == [p \in DOMAIN fs \cup {path} |-> IF p = path THEN content ELSE fs[p]]

ExitStatusZero(success) == 0
\* sys.exit(0 if success else 1)
ExitStatus(success) == IF success THEN 0 ELSE 1

Exited == pc = "exited"

\* the process ends with the given status
Exit(code, rets, stages, final) ==
    /\ retval' = retval \o rets
    /\ exitCode' = code
    /\ uncaught' = FALSE
    /\ pc' = "exited"
    /\ stage' = final
    /\ trace' = trace \o stages \o (IF final = stage /\ stages = <<>> THEN <<>> ELSE <<final>>)

\* the script's functions return (rets, in order), then sys.exit(0 if success else 1)
Finish(rets, success, stages) ==
    Exit(ExitStatus(success), rets, stages, IF success THEN "Done" ELSE "Failed")

\* the run goes on at position next, having reached the given stages
Continue(next, rets, stages) ==
    /\ pc' = next
    /\ retval' = retval \o rets
    /\ trace' = trace \o stages
    /\ stage' = IF stages = <<>> THEN stage ELSE stages[Len(stages)]
    /\ UNCHANGED <<exitCode, uncaught>>

\* an exception nobody catches: traceback on stderr, status 1
Die(site, stages) ==
    /\ raised' = Append(raised, site)
    /\ exitCode' = 1
    /\ uncaught' = TRUE
    /\ pc' = "exited"
    /\ stage' = "Failed"
    /\ trace' = trace \o stages \o <<"Failed">>
    /\ log' = Append(log, Line("traceback", <<site>>))
    /\ UNCHANGED retval

\* -------------------------------------------------------------- top level
\* module-level imports, executed before any try block
Import ==
    /\ pc = "import"
    /\ IF TopLevelImports(script) \subseteq installed
       THEN /\ Continue("main", <<>>, <<>>)
            /\ UNCHANGED <<raised, log>>
       ELSE Die("import", <<>>)
    /\ UNCHANGED <<script, installed, argv, converted, parsed, numErrors, modelName, outputName, model, modelType, files, calls>>

\* ---------------------------------------------------------- convert_yolo.py
YoloMain ==
    /\ pc = "main" /\ script = "yolo"
    /\ modelName' = ResolveModelName(argv)
    /\ log' = log \o <<Line("banner", <<>>), Line("converting", modelName')>>
    /\ Continue("load", <<>>, <<>>)
    /\ UNCHANGED <<script, installed, argv, converted, parsed, numErrors, outputName, model, modelType, files, calls, raised>>

\* convert_model, up to and including YOLO(model_name)
YoloLoad ==
    /\ pc = "load" /\ script = "yolo"
    /\ calls' = Append(calls, "YOLO")
    /\ \E r \in {"ok", "ImportError", "Exception"} :
          IF r = "ok"
          THEN /\ outputName' = OutputNameOf(modelName)
               /\ log' = log \o <<Line("loading", modelName), Line("output_file", outputName')>>
               /\ Continue("export", <<>>, <<"Acquired", "Loaded">>)
               /\ UNCHANGED raised
          ELSE /\ log' = log \o <<Line("loading", modelName),
                                   IF r = "ImportError" THEN Line("install_hint", <<"pip install ultralytics">>)
                                                        ELSE Line("error", <<"during conversion">>)>>
               /\ raised' = Append(raised, "YOLO")
               /\ Finish(<<<<"convert_model", FALSE>>>>, FALSE, <<>>)
               /\ UNCHANGED outputName
    /\ UNCHANGED <<script, installed, argv, converted, parsed, numErrors, modelName, model, modelType, files>>

ExportAlwaysCreated(fs, name) == TRUE
\* convert_model: if os.path.exists(output_name)
ExportCreated(fs, name) == Exists(fs, name)

\* where model.export may leave its file when it is not output_name
Elsewhere(name) == <<"weights_dir/">> \o name

\* convert_model, from model.export(...) to the return, and sys.exit
YoloExport ==
    /\ pc = "export" /\ script = "yolo"
    /\ calls' = Append(calls, "export")
    /\ \E r \in {"wrote", "elsewhere", "nofile", "ImportError", "Exception", "ExceptionPartial"} :
          /\ files' = CASE r = "wrote" -> WriteFile(files, outputName, "full")
                         [] r = "elsewhere" -> WriteFile(files, Elsewhere(outputName), "full")
                         [] r = "ExceptionPartial" -> WriteFile(files, outputName, "partial")
                         [] OTHER -> files
          /\ IF r \in {"ImportError", "Exception", "ExceptionPartial"}
             THEN /\ raised' = Append(raised, "export")
                  /\ log' = Append(log, IF r = "ImportError"
                                         THEN Line("install_hint", <<"pip install ultralytics">>)
                                         ELSE Line("error", <<"during conversion">>))
                  /\ Finish(<<<<"convert_model", FALSE>>>>, FALSE, <<>>)
             ELSE /\ UNCHANGED raised
                  /\ IF ExportCreated(files', outputName)
                     THEN /\ log' = Append(log, Line("success", outputName))
                          /\ Finish(<<<<"convert_model", TRUE>>>>, TRUE, <<"Converted">>)
                     ELSE /\ log' = Append(log, Line("error_not_created", outputName))
                          /\ Finish(<<<<"convert_model", FALSE>>>>, FALSE, <<"Converted">>)
    /\ UNCHANGED <<script, installed, argv, converted, parsed, numErrors, modelName, outputName, model, modelType>>

\* ------------------------------------------------- download_tflite_model.py
\* main, the dependency check
TfMain ==
    /\ pc = "main" /\ script = "tflite"
    /\ IF "tensorflow" \notin installed
       THEN /\ raised' = Append(raised, "main.tensorflow_import")
            /\ log' = log \o <<Line("banner", <<>>), Line("error", <<"import">>),
                                Line("install_hint", <<"pip install tensorflow tensorflow-hub">>)>>
            /\ Finish(<<<<"main", FALSE>>>>, FALSE, <<>>)
       ELSE /\ IF "tensorflow_hub" \in installed
               THEN /\ log' = log \o <<Line("banner", <<>>), Line("tf_version", <<>>), Line("hub_version", <<>>)>>
                    /\ UNCHANGED raised
               ELSE /\ log' = log \o <<Line("banner", <<>>), Line("tf_version", <<>>), Line("hub_warning", <<>>)>>
                    /\ raised' = Append(raised, "main.hub_import")
            /\ Continue("registry", <<>>, <<>>)
    /\ UNCHANGED <<script, installed, argv, converted, parsed, numErrors, modelName, outputName, model, modelType, files, calls>>

FallbackSkipSimple(attempt) ==
    CASE attempt = "registry" -> "minimal"
      [] attempt = "simple" -> "minimal"
      [] attempt = "minimal" -> "none"
\* the except branch of each attempt: which attempt is made next
Fallback(attempt) ==
    CASE attempt = "registry" -> "simple"
      [] attempt = "simple" -> "minimal"
      [] attempt = "minimal" -> "none"

\* the external call an attempt makes
AttemptCall(attempt) ==
    CASE attempt = "registry" -> "hub.load"
      [] attempt = "simple" -> "keras.Model.simple"
      [] attempt = "minimal" -> "keras.Model.minimal"

\* one try/except of the chain: the model is returned to main, or the except
\* branch returns what the next function returns (None after the last)
Attempt(attempt, canCall) ==
    /\ pc = attempt /\ script = "tflite"
    /\ calls' = IF canCall THEN Append(calls, AttemptCall(attempt)) ELSE calls
    /\ \E r \in {"ok", "raise"} :
          /\ ~canCall => r = "raise"
          /\ IF r = "ok"
             THEN /\ model' = <<attempt>>
                  /\ log' = log \o <<Line("trying", <<attempt>>), Line("created", <<attempt>>)>>
                  /\ Continue("convert", <<>>, <<"Acquired", "Loaded">>)
                  /\ UNCHANGED raised
             ELSE /\ raised' = Append(raised, attempt)
                  /\ log' = log \o <<Line("trying", <<attempt>>), Line("error", <<attempt>>)>>
                  /\ IF Fallback(attempt) = "none"
                     THEN /\ model' = None
                          /\ Finish(<<<<"main", FALSE>>>>, FALSE, <<>>)
                     ELSE /\ Continue(Fallback(attempt), <<>>, <<>>)
                          /\ UNCHANGED model
    /\ UNCHANGED <<script, installed, argv, converted, parsed, numErrors, modelName, outputName, modelType, files>>

\* import tensorflow_hub inside the try raises before hub.load when it is absent
DownloadDeeplabv3Model == Attempt("registry", "tensorflow_hub" \in installed)
CreateSimpleSegmentationModel == Attempt("simple", TRUE)
CreateMinimalModel == Attempt("minimal", TRUE)

\* convert_to_tflite: hasattr(model, 'signatures') picks the converter
ConverterFor(m) == IF m = <<"registry">> THEN "from_concrete_functions" ELSE "from_keras_model"

\* content of the output file after open(output_path, 'wb') and f.write(result)
Written(result) == IF result = "bytes" THEN "full" ELSE "empty"

\* f.write(tflite_model) accepts a bytes object only (None raises TypeError)
WriteSucceeds(result) == result # "None"

\* convert_to_tflite and main's test of its result
ConvertToTflite ==
    /\ pc = "convert" /\ script = "tflite"
    /\ \E r \in {"raise", "None", "empty", "bytes", "open_fails", "write_fails"} :
          /\ converted' = IF r \in {"open_fails", "write_fails"} THEN "bytes" ELSE r
          /\ calls' = calls \o <<ConverterFor(model), "convert">>
                             \o (IF r = "raise" THEN <<>> ELSE <<"open_w">>)
          /\ files' = CASE r \in {"raise", "open_fails"} -> files
                         [] r = "write_fails" -> WriteFile(files, TfliteOutputPath, "partial")
                         [] OTHER -> WriteFile(files, TfliteOutputPath, Written(r))
          /\ IF r \in {"empty", "bytes", "None"} /\ WriteSucceeds(r)
             THEN /\ log' = log \o <<Line("converting", <<>>), Line("saved", TfliteOutputPath)>>
                  /\ Continue("test", <<<<"convert_to_tflite", TRUE>>>>, <<"Converted">>)
                  /\ UNCHANGED raised
             ELSE /\ raised' = Append(raised, IF r = "raise" THEN "convert"
                                              ELSE IF r = "open_fails" THEN "open" ELSE "write")
                  /\ log' = log \o <<Line("converting", <<>>), Line("error", <<"converting model">>)>>
                  /\ Finish(<<<<"convert_to_tflite", FALSE>>, <<"main", FALSE>>>>, FALSE, <<>>)
    /\ UNCHANGED <<script, installed, argv, parsed, numErrors, modelName, outputName, model, modelType>>

MainResultIgnoringTest(testOk) == TRUE
\* main: if not test_model(output_path): return False ... return True
MainResult(testOk) == testOk

\* test_model and the rest of main
TestModel ==
    /\ pc = "test" /\ script = "tflite"
    /\ calls' = Append(calls, "Interpreter")
    /\ \E r \in {"ok", "raise"} :
          LET testOk == r = "ok" IN
          /\ raised' = IF testOk THEN raised ELSE Append(raised, "test")
          /\ log' = log \o (IF testOk THEN <<Line("testing", <<>>), Line("test_successful", <<>>)>>
                                       ELSE <<Line("testing", <<>>), Line("error", <<"testing model">>)>>)
                         \o (IF MainResult(testOk) THEN <<Line("SUCCESS", TfliteOutputPath)>> ELSE <<>>)
          /\ Finish(<<<<"test_model", testOk>>, <<"main", MainResult(testOk)>>>>, MainResult(testOk),
                    IF testOk THEN <<"Verified">> ELSE <<>>)
    /\ UNCHANGED <<script, installed, argv, converted, parsed, numErrors, modelName, outputName, model, modelType, files>>

\* ------------------------------------------------- tools/build_trt_engine.py
InputMissingNever(fs) == FALSE
\* __main__: if not Path(onnx_file).exists()
InputMissing(fs) == ~Exists(fs, OnnxFile)

TrtMain ==
    /\ pc = "main" /\ script = "trt"
    /\ IF InputMissing(files)
       THEN /\ log' = Append(log, Line("error_not_found", OnnxFile))
            /\ Exit(1, <<>>, <<>>, "Failed")
       ELSE /\ Continue("setup", <<>>, <<"Acquired">>)
            /\ UNCHANGED log
    /\ UNCHANGED <<script, installed, argv, converted, parsed, numErrors, modelName, outputName, model, modelType, files, calls, raised>>

SetupCalls == <<"Logger", "Builder", "create_network", "OnnxParser">>
ConfigCalls == <<"create_builder_config", "set_memory_pool_limit", "set_flag">>

\* a straight run of library calls outside any try: the first k are made,
\* and the k-th raises unless all of them return
CallRun(at, seq, next) ==
    /\ pc = at /\ script = "trt"
    /\ \E k \in 1..Len(seq), r \in {"ok", "raise"} :
          /\ k < Len(seq) => r = "raise"
          /\ calls' = calls \o SubSeq(seq, 1, k)
          /\ IF r = "ok"
             THEN Continue(next, <<>>, <<>>) /\ UNCHANGED <<raised, log>>
             ELSE Die(seq[k], <<>>)
    /\ UNCHANGED <<script, installed, argv, converted, parsed, numErrors, modelName, outputName, model, modelType, files>>

\* build_engine: logger, builder, network, parser
TrtSetup == CallRun("setup", SetupCalls, "parse")

\* build_engine: read and parse the ONNX file, print the parser's errors
TrtParse ==
    /\ pc = "parse" /\ script = "trt"
    /\ \E r \in {"open_fails", "raise", "true", "false"}, n \in 0..MaxErrors :
          /\ r # "false" => n = 0
          /\ parsed' = r
          /\ numErrors' = n
          /\ calls' = calls \o <<"open_r">> \o (IF r = "open_fails" THEN <<>> ELSE <<"parse">>)
                             \o [i \in 1..n |-> "get_error"]
          /\ CASE r = "open_fails" -> Die("open_r", <<>>)
               [] r = "raise" -> Die("parse", <<>>)
               [] r = "true" -> /\ log' = Append(log, Line("loading", OnnxFile))
                                /\ Continue("config", <<>>, <<"Loaded">>)
                                /\ UNCHANGED raised
               [] r = "false" -> /\ log' = log \o <<Line("loading", OnnxFile)>> \o [i \in 1..n |-> ErrorLine(i - 1)]
                                 /\ Finish(<<<<"build_engine", FALSE>>>>, FALSE, <<>>)
                                 /\ UNCHANGED raised
    /\ UNCHANGED <<script, installed, argv, converted, modelName, outputName, model, modelType, files>>

\* build_engine: builder config
TrtConfig == CallRun("config", ConfigCalls, "build")

MayOpenOutputAlways(serialized) == TRUE
\* build_engine: if serialized_engine is None: return False
MayOpenOutput(serialized) == serialized # "None"

\* build_engine: build the engine and save it, then sys.exit
TrtBuild ==
    /\ pc = "build" /\ script = "trt"
    /\ \E b \in {"raise", "None", "bytes"}, w \in {"ok", "open_fails", "write_fails"} :
          LET opens == b # "raise" /\ MayOpenOutput(b) IN
          /\ ~opens => w = "ok"
          /\ converted' = b
          /\ calls' = calls \o <<"build_serialized_network">> \o (IF opens THEN <<"open_w">> ELSE <<>>)
          /\ files' = IF opens /\ w # "open_fails"
                       THEN WriteFile(files, EngineFile,
                                      IF w = "write_fails" THEN "partial" ELSE Written(b))
                       ELSE files
          /\ CASE b = "raise" -> Die("build_serialized_network", <<>>)
               [] ~opens /\ b # "raise" ->
                     /\ log' = log \o <<Line("building", <<>>), Line("failed_to_build", <<>>)>>
                     /\ Finish(<<<<"build_engine", FALSE>>>>, FALSE, <<>>)
                     /\ UNCHANGED raised
               [] opens /\ w = "open_fails" -> Die("open_w", <<>>)
               [] opens /\ w # "open_fails" /\ (w = "write_fails" \/ ~WriteSucceeds(b)) -> Die("write", <<>>)
               [] opens /\ w = "ok" /\ WriteSucceeds(b) ->
                     /\ log' = log \o <<Line("building", <<>>), Line("saved", EngineFile)>>
                     /\ Finish(<<<<"build_engine", TRUE>>>>, TRUE, <<"Converted">>)
                     /\ UNCHANGED raised
    /\ UNCHANGED <<script, installed, argv, parsed, numErrors, modelName, outputName, model, modelType>>

\* ------------------------------------------- tools/export_mediapipe_hands.py
ModelChoices == DOMAIN ModelFileNames

\* what the command line carries: -h, --output PATH, --model NAME
HandsArgs == [help : BOOLEAN, output : BOOLEAN, mdl : {"none", "lite", "full", "huge"}]

ArgsValidAlways(a) == TRUE
\* argparse: --output is required, --model must be one of the choices
ArgsValid(a) == a.output /\ a.mdl \in ModelChoices \cup {"none"}

\* main: parser.parse_args(); argparse ends the process itself with status 0
\* after -h and with status 2 after a usage error
HandsParse ==
    /\ pc = "main" /\ script = "hands"
    /\ \/ /\ argv.help
          /\ log' = Append(log, Line("usage", <<>>))
          /\ Exit(0, <<>>, <<>>, stage)
          /\ UNCHANGED modelType
       \/ /\ ~ArgsValid(argv)
          /\ ~argv.help \/ argv.mdl \notin ModelChoices \cup {"none"}
          /\ log' = Append(log, Line("usage_error", <<>>))
          /\ Exit(2, <<>>, <<>>, "Failed")
          /\ UNCHANGED modelType
       \/ /\ ~argv.help /\ ArgsValid(argv)
          /\ modelType' = IF argv.mdl = "none" THEN "full" ELSE argv.mdl
          /\ Continue("export_hand_landmark", <<>>, <<>>)
          /\ UNCHANGED log
    /\ UNCHANGED <<script, installed, argv, converted, parsed, numErrors, modelName, outputName, model, files, calls, raised>>

\* export_hand_landmark: MODEL_FILES[model_type], None standing for the KeyError
ModelFileOf(t) == IF t \in DOMAIN ModelFileNames THEN ModelFileNames[t] ELSE None

\* export_hand_landmark, then main returns and the process ends with status 0
ExportHandLandmark ==
    /\ pc = "export_hand_landmark" /\ script = "hands"
    /\ \E r \in {"ok", "mkdir_fails", "convert_raises", "convert_raises_partial"} :
          LET tflite == ModelFileOf(modelType)
              found == tflite # None /\ Exists(files, tflite) IN
          /\ ~found => r = "ok"
          /\ calls' = calls \o (IF found THEN <<"mkdir">> ELSE <<>>)
                             \o (IF found /\ r # "mkdir_fails" THEN <<"convert">> ELSE <<>>)
          /\ files' = CASE found /\ r = "ok" -> WriteFile(files, HandsOutput, "full")
                         [] found /\ r = "convert_raises_partial" -> WriteFile(files, HandsOutput, "partial")
                         [] OTHER -> files
          /\ CASE tflite = None -> Die("ValueError", <<>>)
               [] tflite # None /\ ~found -> Die("FileNotFoundError", <<>>)
               [] found /\ r = "mkdir_fails" -> Die("mkdir", <<"Acquired">>)
               [] found /\ r \in {"convert_raises", "convert_raises_partial"} -> Die("convert", <<"Acquired">>)
               [] found /\ r = "ok" -> /\ Exit(0, <<>>, <<"Acquired", "Loaded", "Converted">>, "Done")
                                        /\ UNCHANGED <<raised, log>>
    /\ UNCHANGED <<script, installed, argv, converted, parsed, numErrors, modelName, outputName, model, modelType>>

\* ------------------------------------------------------------ specification
ArgvOf(s) ==
    CASE s = "yolo" -> {<<>>} \cup {<<n>> : n \in Names}
      [] s = "hands" -> HandsArgs
      [] OTHER -> {<<>>}

\* files that may be present before the run
InitialFiles(s, a) ==
    LET Stale(paths) == {[p \in P |-> "stale"] : P \in SUBSET paths} IN
    CASE s = "yolo" -> Stale({OutputNameOf(ResolveModelName(a))})
      [] s = "tflite" -> Stale({TfliteOutputPath})
      [] s = "trt" -> Stale({OnnxFile, EngineFile})
      [] s = "hands" -> Stale({ModelFileNames.lite, ModelFileNames.full})

Init ==
    /\ script \in Scripts
    /\ installed \in SUBSET Packages(script)
    /\ argv \in ArgvOf(script)
    /\ files \in InitialFiles(script, argv)
    /\ pc = "import"
    /\ modelName = None
    /\ outputName = None
    /\ model = <<"unset">>
    /\ modelType = "unset"
    /\ log = <<>>
    /\ calls = <<>>
    /\ raised = <<>>
    /\ retval = <<>>
    /\ converted = "unset"
    /\ parsed = "unset"
    /\ numErrors = 0
    /\ stage = "Start"
    /\ trace = <<"Start">>
    /\ exitCode = -1
    /\ uncaught = FALSE

Next ==
    \/ Import
    \/ YoloMain
    \/ YoloLoad
    \/ YoloExport
    \/ TfMain
    \/ DownloadDeeplabv3Model
    \/ CreateSimpleSegmentationModel
    \/ CreateMinimalModel
    \/ ConvertToTflite
    \/ TestModel
    \/ TrtMain
    \/ TrtSetup
    \/ TrtParse
    \/ TrtConfig
    \/ TrtBuild
    \/ HandsParse
    \/ ExportHandLandmark

Spec == Init /\ [][Next]_vars

TypeOK ==
    /\ script \in Scripts
    /\ exitCode \in {-1, 0, 1, 2}
    /\ uncaught \in BOOLEAN
    /\ (pc = "exited") = (exitCode # -1)

\* ------------------------------------------------------------ vocabulary
InSeq(x, seq) == \E i \in 1..Len(seq) : seq[i] = x
Count(x, seq) == Cardinality({i \in 1..Len(seq) : seq[i] = x})
Printed(kind) == \E i \in 1..Len(log) : log[i].kind = kind
PrintedWith(kind, text) == \E i \in 1..Len(log) : log[i].kind = kind /\ log[i].text = text
Returned(fn, value) == InSeq(<<fn, value>>, retval)
EndsInPt(s) == Len(s) >= 3 /\ s[Len(s) - 2] = "." /\ s[Len(s) - 1] = "p" /\ s[Len(s)] = "t"
Content(path) == IF Exists(files, path) THEN files[path] ELSE "absent"

\* the conversion the script exists for was carried out and reported
ConversionSucceeded ==
    CASE script = "yolo" -> /\ InSeq("export", calls) /\ ~InSeq("export", raised)
                            /\ Exists(files, outputName)
      [] script = "tflite" -> /\ model # None /\ model # <<"unset">>
                              /\ Returned("convert_to_tflite", TRUE)
                              /\ Returned("test_model", TRUE)
      [] script = "trt" -> InSeq("open_w", calls) /\ ~InSeq("open_w", raised) /\ ~InSeq("write", raised)
      [] script = "hands" -> InSeq("convert", calls) /\ ~InSeq("convert", raised)

HelpShown == script = "hands" /\ Printed("usage")
UsageError == script = "hands" /\ Printed("usage_error")

UncaughtSites(s) ==
    CASE s = "trt" -> {"import", "open_r", "parse", "build_serialized_network", "open_w", "write"}
                        \cup {SetupCalls[i] : i \in 1..Len(SetupCalls)}
                        \cup {ConfigCalls[i] : i \in 1..Len(ConfigCalls)}
      [] s = "hands" -> {"import", "ValueError", "FileNotFoundError", "mkdir", "convert"}
      [] OTHER -> {"import"}

RequiredPackages(s) == TopLevelImports(s) \cup (IF s = "tflite" THEN {"tensorflow"} ELSE {})
C2_AsStated ==
    Exited /\ ~(RequiredPackages(script) \subseteq installed)
        => exitCode = 1 /\ ~uncaught /\ Printed("install_hint")

\* C3 (as stated): when the external conversion call returns None or an empty
\* result, the wrapping function returns failure and the process exits 1, and
\* no run that reports success leaves a zero-byte or partial output file.
C3_AsStated ==
    /\ converted \in {"None", "empty"} =>
          /\ ~Returned("convert_to_tflite", TRUE)
          /\ ~Returned("build_engine", TRUE)
          /\ (Exited => exitCode = 1)
    /\ Exited /\ exitCode = 0 /\ script = "tflite" => Content(TfliteOutputPath) = "full"
    /\ Exited /\ exitCode = 0 /\ script = "trt" => Content(EngineFile) = "full"

\* the attempts of the fallback chain that were started, in order
RECURSIVE Started(_)
Started(lines) ==
    IF lines = <<>> THEN <<>>
    ELSE IF Head(lines).kind = "trying" THEN <<Head(lines).text[1]>> \o Started(Tail(lines))
         ELSE Started(Tail(lines))
ChainOrder == <<"registry", "simple", "minimal">>

\* C4: download_deeplabv3_model starts its attempts in the order registry,
\* simple, minimal; an attempt is started only after every earlier one raised;
\* the model returned is that of the first attempt that did not raise, after
\* which no attempt is started; None is returned only when all three raised;
\* and when the first two raise, the minimal network is attempted and, if it
\* is built, returned to main, which goes on to the conversion.
C4_FallbackOrder ==
    script = "tflite" =>
      LET st == Started(log) IN
      /\ Len(st) <= Len(ChainOrder) /\ st = SubSeq(ChainOrder, 1, Len(st))
      /\ \A i \in 1..Len(st) : i < Len(st) => InSeq(st[i], raised)
      /\ \A i \in 1..Len(st) : Count(AttemptCall(st[i]), calls) <= 1
      /\ (model # None /\ model # <<"unset">> =>
             /\ st # <<>> /\ model = <<st[Len(st)]>>
             /\ ~InSeq(model[1], raised)
             /\ InSeq(AttemptCall(model[1]), calls))
      /\ (model = None => \A i \in 1..Len(ChainOrder) : InSeq(ChainOrder[i], raised))
      /\ (model = <<"unset">> /\ pc \notin {"import", "main", "exited"} =>
             pc = ChainOrder[Len(st) + 1] /\ \A i \in 1..Len(st) : InSeq(st[i], raised))
      /\ (InSeq("registry", raised) /\ InSeq("simple", raised) /\ ~InSeq("minimal", raised)
             => \/ (pc = "minimal" /\ ~Exited)
                \/ (model = <<"minimal">> /\ (InSeq("convert", calls) = (pc # "convert"))))

\* C4 witness: registry and simple raised, the minimal network was returned
C4_Witness ==
    /\ model = <<"minimal">> /\ pc = "convert"
    /\ InSeq("registry", raised) /\ InSeq("simple", raised)

\* C5: for a command-line name not ending in '.pt' the resolved name is the
\* name followed by '.pt' once; a name ending in '.pt' is left unchanged; and
\* normalising the resolved name again changes nothing.
C5_Normalize ==
    script = "yolo" /\ modelName # None /\ Len(argv) > 0 =>
      /\ (~EndsInPt(argv[1]) => modelName = argv[1] \o <<".", "p", "t">>)
      /\ (EndsInPt(argv[1]) => modelName = argv[1])
      /\ Normalize(modelName) = modelName

\* C5 witness: a name without the suffix was resolved
C5_Witness ==
    /\ script = "yolo" /\ Len(argv) > 0 /\ modelName # None
    /\ ~EndsInPt(argv[1]) /\ Len(modelName) = Len(argv[1]) + 3

\* C6: without arguments the detection exporter uses 'yolov8n-seg.pt'; once a
\* model name is resolved, the run prints the success line with the output
\* name (every '.pt' of the model name replaced by '.onnx') and exits 0
\* exactly when export raised nothing and a file exists at that name;
\* otherwise it prints an error and exits 1.
C6_DetectionExport ==
    script = "yolo" /\ modelName # None =>
      /\ (argv = <<>> => modelName = <<"y", "o", "l", "o", "v", "8", "n", "-", "s", "e", "g", ".", "p", "t">>)
      /\ (Exited =>
            LET out == ReplacePt(modelName)
                ok == /\ InSeq("export", calls) /\ ~InSeq("export", raised)
                      /\ Exists(files, out)
            IN /\ (exitCode = 0) = ok
               /\ PrintedWith("success", out) = ok
               /\ Printed("success") = ok
               /\ (~ok => /\ exitCode = 1
                           /\ (Printed("error") \/ Printed("error_not_created") \/ Printed("install_hint"))))

\* C6 witness: a successful export of a name that was given without suffix
C6_Witness ==
    /\ script = "yolo" /\ Exited /\ exitCode = 0
    /\ Len(argv) > 0 /\ ~EndsInPt(argv[1])
    /\ PrintedWith("success", outputName)

\* C7: when the input ONNX path does not exist the engine builder ends with
\* status 1 without entering build_engine: no call into the inference-engine
\* library, no file opened, no return from build_engine.
C7_MissingInput ==
    script = "trt" /\ ~Exists(files, OnnxFile) =>
      /\ calls = <<>>
      /\ pc \in {"import", "main", "exited"}
      /\ ~Returned("build_engine", TRUE) /\ ~Returned("build_engine", FALSE)
      /\ Content(EngineFile) \in {"absent", "stale"}
      /\ (Exited => exitCode = 1)

\* C7 witness: the path check itself ended the run
C7_Witness ==
    /\ script = "trt" /\ Exited /\ ~Exists(files, OnnxFile)
    /\ PrintedWith("error_not_found", OnnxFile)

Rank(st) ==
    CASE st = "Start" -> 0 [] st = "Acquired" -> 1 [] st = "Loaded" -> 2
      [] st = "Converted" -> 3 [] st = "Verified" -> 4 [] st = "Done" -> 5
      [] st = "Failed" -> 6
FullRun(s) ==
    <<"Start", "Acquired", "Loaded", "Converted">>
       \o (IF s = "tflite" THEN <<"Verified">> ELSE <<>>) \o <<"Done">>
FallbackSites == {"main.hub_import", "registry", "simple", "minimal"}

\* the part of C8 that does not depend on the exit status
StagesInOrder ==
    /\ stage = trace[Len(trace)]
    /\ \A i, j \in 1..Len(trace) : i < j => Rank(trace[i]) < Rank(trace[j])
    /\ (InSeq("Verified", trace) => script = "tflite")
    /\ \A i, j \in 1..Len(calls) : i < j /\ calls[i] = calls[j] => calls[i] = "get_error"
    /\ (stage = "Done" => trace = FullRun(script))
    /\ (stage = "Failed" => Exited)
    /\ (Exited /\ exitCode = 0 => \A i \in 1..Len(raised) : raised[i] \in FallbackSites)

\* C8 (as stated): the stages are visited strictly in the order Start,
\* Acquired, Loaded, Converted, (Verified), Done without revisits or repeated
\* external calls; the only other transition is to Failed with exit code 1;
\* Done is reached only after Converted (and Verified); no error other than
\* those of the fallback chain precedes a successful run.
C8_AsStated ==
    /\ StagesInOrder
    /\ (stage = "Failed" => exitCode = 1)
    /\ (Exited => stage \in {"Done", "Failed"})
    /\ (Exited => (exitCode = 0) = (stage = "Done"))

\* C8 (amended): as C8, except that the landmark exporter has two more ways
\* to end, both taken from Start by its argument parser: a usage error leads
\* to Failed with exit code 2, and -h ends the run with exit code 0 without
\* any stage being attempted.  Every other Failed has exit code 1, exit code
\* 0 otherwise means Done, and the errors that may precede Done are those of
\* the three-tier fallback (with main's tolerated tensorflow_hub import
\* failure, which leads into it).
C8_StageOrder ==
    /\ StagesInOrder
    /\ (stage = "Failed" => exitCode = IF UsageError THEN 2 ELSE 1)
    /\ (UsageError => trace = <<"Start", "Failed">> /\ calls = <<>>)
    /\ (Exited => stage \in {"Done", "Failed"} \/ (HelpShown /\ trace = <<"Start">> /\ calls = <<>>))
    /\ (Exited => (exitCode = 0) = (stage = "Done" \/ HelpShown))

\* C8 witness: a full run of the script that has the Verified stage
C8_Witness == script = "tflite" /\ stage = "Done" /\ raised # <<>>

\* C9: when the smoke test fails after the artifact was written, the run
\* exits 1, never prints SUCCESS, and leaves the artifact as convert_to_tflite
\* wrote it (opened for writing once, not deleted); the run exits 0 only if
\* the model was obtained, then the artifact written, then the test passed.
C9_SmokeTest ==
    script = "tflite" =>
      /\ (InSeq("test", raised) =>
            /\ Exited /\ exitCode = 1 /\ ~Printed("SUCCESS")
            /\ Content(TfliteOutputPath) = Written(converted)
            /\ Count("open_w", calls) = 1)
      /\ (pc = "test" => Content(TfliteOutputPath) = Written(converted) /\ Count("open_w", calls) = 1)
      /\ (Printed("SUCCESS") => exitCode = 0)
      /\ (Exited /\ exitCode = 0 =>
            /\ model # None /\ model # <<"unset">>
            /\ retval = <<<<"convert_to_tflite", TRUE>>, <<"test_model", TRUE>>, <<"main", TRUE>>>>
            /\ Printed("SUCCESS")
            /\ \E i, j, k, l \in 1..Len(calls) :
                  /\ i < j /\ j < k /\ k < l
                  /\ calls[i] = AttemptCall(model[1]) /\ calls[j] = "convert"
                  /\ calls[k] = "open_w" /\ calls[l] = "Interpreter"
                  /\ l = Len(calls))

\* C9 witness: the smoke test failed on a written artifact
C9_Witness ==
    /\ script = "tflite" /\ InSeq("test", raised) /\ Exited
    /\ Content(TfliteOutputPath) = "full"

\* C10: build_engine opens the engine path for writing only after a
\* successful parse and a non-None build result; a failed parse prints one
\* line per parser error (num_errors of them), returns False and makes no
\* config or build call and does not touch the output path; a None build
\* result returns False without touching the output path.
C10_EngineOutput ==
    script = "trt" =>
      /\ (InSeq("open_w", calls) => parsed = "true" /\ converted = "bytes")
      /\ (Content(EngineFile) \notin {"absent", "stale"} => InSeq("open_w", calls))
      /\ (parsed = "false" =>
            /\ Exited /\ exitCode = 1 /\ retval = <<<<"build_engine", FALSE>>>>
            /\ Count("get_error", calls) = numErrors
            /\ \A e \in 0..(numErrors - 1) : Count(ErrorLine(e), log) = 1
            /\ Cardinality({i \in 1..Len(log) : log[i].kind = "parser_error"}) = numErrors
            /\ \A i \in 1..Len(ConfigCalls) : ~InSeq(ConfigCalls[i], calls)
            /\ ~InSeq("build_serialized_network", calls)
            /\ ~InSeq("open_w", calls))
      /\ (converted = "None" =>
            /\ Exited /\ exitCode = 1 /\ retval = <<<<"build_engine", FALSE>>>>
            /\ ~InSeq("open_w", calls))

\* C10 witness: a failed parse with several errors
C10_Witness ==
    /\ script = "trt" /\ parsed = "false" /\ numErrors >= 2 /\ Exited
====
